---- MODULE Spec2Model ----
(***************************************************************************)
(* The election, lock and map commands of the CLI (src/cli/commands):      *)
(* Resource classes (suggest / complete over a name list fetched from the  *)
(* collection endpoint) and Action classes (one HTTP request, then print). *)
(*                                                                         *)
(* A string is a sequence of one-character strings.  The server is an      *)
(* opaque HTTP collaborator: it holds a list of names and answers every    *)
(* request with a status code and a body of its own choosing.              *)
(***************************************************************************)
EXTENDS Naturals, Sequences, FiniteSets

VARIABLES
    names,     \* the server's collection: the list of names a collection GET would return
    resp,      \* the last response the server sent
    call,      \* the invocation in progress: operation and arguments
    sent,      \* the HTTP requests issued by the invocation, in order
    stdout,    \* the lines printed by the invocation
    decodes,   \* how many times the invocation called response.json()
    outcome,   \* "idle", "created", "suspended", "returned" or "raised"
    retval,    \* the value suggest returned
    yielded,   \* the names complete has yielded so far
    frame      \* the locals of a suspended generator

vars == <<names, resp, call, sent, stdout, decodes, outcome, retval, yielded, frame>>

----------------------------------------------------------------------------
(* Bounds and input sets *)

\* longest name list the server holds
MaxList == 2

\* the names the server may hold: "a-lock", "b-lock", "A-Lock"
NameUniverse ==
    { <<"a", "-", "l", "o", "c", "k">>,
      <<"b", "-", "l", "o", "c", "k">>,
      <<"A", "-", "L", "o", "c", "k">> }

\* the prefixes typed: "", "a", "A-l", "b-lock" (a whole name), "a-locks" (longer than any)
Prefixes ==
    { <<>>,
      <<"a">>,
      <<"A", "-", "l">>,
      <<"b", "-", "l", "o", "c", "k">>,
      <<"a", "-", "l", "o", "c", "k", "s">> }

ArgNames == {"foo"}
ArgIds == {"k1"}
ArgValues == {"v1", "v2"}

StatusCodes == {200, 404, 500}

\* response texts the server sends to an action: empty, JSON, not JSON
JsonTexts == {"true", "17", "\"ok\""}

NoText == ""
NoData == "<no body>"
NoArg == "<no arg>"

----------------------------------------------------------------------------
(* Python strings *)

\* str.lower(), one character
LowerChar(c) ==
    CASE c = "A" -> "a"
      [] c = "B" -> "b"
      [] c = "L" -> "l"
      [] OTHER -> c

\* str.lower()
lower(s) == [i \in DOMAIN s |-> LowerChar(s[i])]

\* str.startswith(p)
startswith(s, p) ==
    /\ Len(p) <= Len(s)
    /\ SubSeq(s, 1, Len(p)) = p

\* a slip: the whole name is returned, not what is left of it after the prefix
SliceNothing(s, n) == s

\* s[n:]
SliceFrom(s, n) == SubSeq(s, n + 1, Len(s))

\* a slip: the comparison forgets to lower-case the name
MatchesCaseSensitive(x, prefix) == startswith(x, lower(prefix))

\* `x.lower().startswith(prefix.lower())`, the test of every suggest and complete
Matches(x, prefix) == startswith(lower(x), lower(prefix))

\* the `for x in xs: if x.lower().startswith(prefix.lower())` loop, from position i:
\* the position of the next matching element, 0 when the loop runs off the end
RECURSIVE NextMatch(_, _, _)
NextMatch(xs, i, prefix) ==
    IF i > Len(xs) THEN 0
    ELSE IF Matches(xs[i], prefix) THEN i
    ELSE NextMatch(xs, i + 1, prefix)

----------------------------------------------------------------------------
(* HTTP *)

\* a response body: its text (for an action) or the JSON array it holds (for a collection)
Body(form, text, list) == [form |-> form, text |-> text, list |-> list]

Response(status_code, body) == [status_code |-> status_code, body |-> body]

NoResponse == Response(0, Body("none", NoText, <<>>))

\* response.text != ''
TextNonEmpty(response) == response.body.form # "empty"

\* response.json() succeeds
JsonOk(response) == response.body.form = "json"

\* json of an action's body: the Python value, with its type
PyValue(text) ==
    CASE text = "true" -> [type |-> "bool", repr |-> "True"]
      [] text = "17" -> [type |-> "int", repr |-> "17"]
      [] text = "\"ok\"" -> [type |-> "str", repr |-> "'ok'"]
      [] OTHER -> [type |-> "NoneType", repr |-> "None"]

\* str(value), what print writes
PyStr(value) ==
    IF value.type = "str"
    THEN (CASE value.repr = "'ok'" -> "ok" [] OTHER -> value.repr)
    ELSE value.repr

ActionBodies ==
    { Body("empty", "", <<>>), Body("garbage", "<html>", <<>>) }
    \cup { Body("json", t, <<>>) : t \in JsonTexts }

ActionResponses == { Response(s, b) : s \in StatusCodes, b \in ActionBodies }

\* what the server answers to a collection GET: any status, and a body that is
\* the JSON array of its names, empty, or not JSON
CollectionBodies ==
    { Body("json", NoText, names), Body("empty", NoText, <<>>), Body("garbage", NoText, <<>>) }

CollectionResponses == { Response(s, b) : s \in StatusCodes, b \in CollectionBodies }

\* cli.path(template, **kwargs) is kept as the template and its keyword arguments
Request(verb, template, kwargs, headers, data) ==
    [verb |-> verb, template |-> template, kwargs |-> kwargs,
     headers |-> headers, data |-> data]

----------------------------------------------------------------------------
(* State *)

NoCall == [op |-> "none", name |-> NoArg, key |-> NoArg, value |-> NoArg, prefix |-> <<>>]

Call(op, name, key, value, prefix) ==
    [op |-> op, name |-> name, key |-> key, value |-> value, prefix |-> prefix]

None == [none |-> TRUE, str |-> <<>>]
Str(s) == [none |-> FALSE, str |-> s]

NoFrame == [xs |-> <<>>, i |-> 0]

Init ==
    /\ names \in {<<>>} \cup { <<n>> : n \in NameUniverse }
    /\ resp = NoResponse
    /\ call = NoCall
    /\ sent = <<>>
    /\ stdout = <<>>
    /\ decodes = 0
    /\ outcome = "idle"
    /\ retval = None
    /\ yielded = <<>>
    /\ frame = NoFrame

----------------------------------------------------------------------------
(* The remote service: names come and go between and during invocations *)

ServerCreate ==
    /\ Len(names) < MaxList
    /\ \E n \in NameUniverse : names' = Append(names, n)
    /\ UNCHANGED <<resp, call, sent, stdout, decodes, outcome, retval, yielded, frame>>

ServerDelete ==
    /\ names # <<>>
    /\ names' = Tail(names)
    /\ UNCHANGED <<resp, call, sent, stdout, decodes, outcome, retval, yielded, frame>>

----------------------------------------------------------------------------
(* Resources: the fetch *)

\* what a fetch gives its caller: the list, or the exception response.json() raised
Fetched(xs, n) == [raised |-> FALSE, xs |-> xs, decodes |-> n]
FetchRaised == [raised |-> TRUE, xs |-> <<>>, decodes |-> 1]

_get_lock_names_request ==
    Request("GET", "/v1/primitives/locks", <<>>, {}, NoData)

_get_lock_names(response) ==
    IF response.status_code = 200
    THEN (IF JsonOk(response) THEN Fetched(response.body.list, 1) ELSE FetchRaised)
    ELSE Fetched(<<>>, 0)

_get_election_names_request ==
    Request("GET", "/v1/primitives/elections", <<>>, {}, NoData)

_get_election_names(response) ==
    IF response.status_code = 200
    THEN (IF JsonOk(response) THEN Fetched(response.body.list, 1) ELSE FetchRaised)
    ELSE Fetched(<<>>, 0)

_get_candidates_request(name) ==
    Request("GET", "/v1/primitives/elections/{name}", [name |-> name], {}, NoData)

_get_candidates(response) ==
    IF response.status_code = 200
    THEN (IF JsonOk(response) THEN Fetched(response.body.list, 1) ELSE FetchRaised)
    ELSE Fetched(<<>>, 0)

_get_map_names_request ==
    Request("GET", "/v1/primitives/maps", <<>>, {}, NoData)

_get_map_names(response) ==
    IF response.status_code = 200
    THEN (IF JsonOk(response) THEN Fetched(response.body.list, 1) ELSE FetchRaised)
    ELSE Fetched(<<>>, 0)

_get_map_keys_request(name) ==
    Request("GET", "/v1/primitives/maps/{name}/keys", [name |-> name], {}, NoData)

\* a slip: the body is decoded whatever the status
_get_map_keys_any_status(response) ==
    IF JsonOk(response) THEN Fetched(response.body.list, 1) ELSE FetchRaised

_get_map_keys(response) ==
    IF response.status_code = 200
    THEN (IF JsonOk(response) THEN Fetched(response.body.list, 1) ELSE FetchRaised)
    ELSE Fetched(<<>>, 0)

----------------------------------------------------------------------------
(* Resources: suggest *)

\* the body of every suggest: fetch, then return the first match's remainder
\*     for x in xs: if x.lower().startswith(prefix.lower()): return x[len(prefix):]
\*     return None
SuggestReturn(xs, prefix) ==
    LET j == NextMatch(xs, 1, prefix)
    IN  IF j = 0 THEN None ELSE Str(SliceFrom(xs[j], Len(prefix)))

\* one call of suggest, start to finish: the request, the server's answer, the return
Suggest(c, request, response, got) ==
    /\ outcome = "idle"
    /\ call' = c
    /\ sent' = <<request>>
    /\ resp' = response
    /\ decodes' = got.decodes
    /\ stdout' = <<>>
    /\ outcome' = IF got.raised THEN "raised" ELSE "returned"
    /\ retval' = IF got.raised THEN None ELSE SuggestReturn(got.xs, c.prefix)
    /\ UNCHANGED <<names, yielded, frame>>

LockResource_suggest ==
    \E prefix \in Prefixes, response \in CollectionResponses :
        Suggest(Call("LockResource.suggest", NoArg, NoArg, NoArg, prefix),
                _get_lock_names_request, response, _get_lock_names(response))

ElectionResource_suggest ==
    \E prefix \in Prefixes, response \in CollectionResponses :
        Suggest(Call("ElectionResource.suggest", NoArg, NoArg, NoArg, prefix),
                _get_election_names_request, response, _get_election_names(response))

CandidateResource_suggest ==
    \E name \in ArgNames, prefix \in Prefixes, response \in CollectionResponses :
        Suggest(Call("CandidateResource.suggest", name, NoArg, NoArg, prefix),
                _get_candidates_request(name), response, _get_candidates(response))

MapResource_suggest ==
    \E prefix \in Prefixes, response \in CollectionResponses :
        Suggest(Call("MapResource.suggest", NoArg, NoArg, NoArg, prefix),
                _get_map_names_request, response, _get_map_names(response))

KeyResource_suggest ==
    \E name \in ArgNames, prefix \in Prefixes, response \in CollectionResponses :
        Suggest(Call("KeyResource.suggest", name, NoArg, NoArg, prefix),
                _get_map_keys_request(name), response, _get_map_keys(response))

----------------------------------------------------------------------------
(* Resources: complete, a generator *)

\* calling a generator function runs none of its body
Complete(c) ==
    /\ outcome = "idle"
    /\ call' = c
    /\ outcome' = "created"
    /\ sent' = <<>>
    /\ stdout' = <<>>
    /\ decodes' = 0
    /\ retval' = None
    /\ yielded' = <<>>
    /\ frame' = NoFrame
    /\ UNCHANGED <<names, resp>>

\* the loop of complete from position i of xs, to its next yield or to its end
RunLoop(xs, i) ==
    LET j == NextMatch(xs, i, call.prefix)
    IN  IF j = 0
        THEN /\ outcome' = "returned"
             /\ yielded' = yielded
             /\ frame' = NoFrame
        ELSE /\ outcome' = "suspended"
             /\ yielded' = Append(yielded, xs[j])
             /\ frame' = [xs |-> xs, i |-> j + 1]

\* the first next() of the generator: the fetch, then the loop to its first yield
Start(op, request, response, got) ==
    /\ call.op = op
    /\ outcome = "created"
    /\ sent' = Append(sent, request)
    /\ resp' = response
    /\ decodes' = decodes + got.decodes
    /\ IF got.raised
       THEN outcome' = "raised" /\ yielded' = yielded /\ frame' = NoFrame
       ELSE RunLoop(got.xs, 1)
    /\ UNCHANGED <<names, call, stdout, retval>>

\* a slip: a later next() reads the server's list as it is now
ResumeOverLiveList(op) ==
    /\ call.op = op
    /\ outcome = "suspended"
    /\ RunLoop(names, frame.i)
    /\ UNCHANGED <<names, resp, call, sent, stdout, decodes, retval>>

\* a later next(): the loop goes on over the list fetched by the first
Resume(op) ==
    /\ call.op = op
    /\ outcome = "suspended"
    /\ RunLoop(frame.xs, frame.i)
    /\ UNCHANGED <<names, resp, call, sent, stdout, decodes, retval>>

LockResource_complete ==
    \/ \E prefix \in Prefixes :
          Complete(Call("LockResource.complete", NoArg, NoArg, NoArg, prefix))
    \/ \E response \in CollectionResponses :
          Start("LockResource.complete", _get_lock_names_request,
                response, _get_lock_names(response))
    \/ Resume("LockResource.complete")

ElectionResource_complete ==
    \/ \E prefix \in Prefixes :
          Complete(Call("ElectionResource.complete", NoArg, NoArg, NoArg, prefix))
    \/ \E response \in CollectionResponses :
          Start("ElectionResource.complete", _get_election_names_request,
                response, _get_election_names(response))
    \/ Resume("ElectionResource.complete")

CandidateResource_complete ==
    \/ \E name \in ArgNames, prefix \in Prefixes :
          Complete(Call("CandidateResource.complete", name, NoArg, NoArg, prefix))
    \/ \E response \in CollectionResponses :
          Start("CandidateResource.complete", _get_candidates_request(call.name),
                response, _get_candidates(response))
    \/ Resume("CandidateResource.complete")

MapResource_complete ==
    \/ \E prefix \in Prefixes :
          Complete(Call("MapResource.complete", NoArg, NoArg, NoArg, prefix))
    \/ \E response \in CollectionResponses :
          Start("MapResource.complete", _get_map_names_request,
                response, _get_map_names(response))
    \/ Resume("MapResource.complete")

KeyResource_complete ==
    \/ \E name \in ArgNames, prefix \in Prefixes :
          Complete(Call("KeyResource.complete", name, NoArg, NoArg, prefix))
    \/ \E response \in CollectionResponses :
          Start("KeyResource.complete", _get_map_keys_request(call.name),
                response, _get_map_keys(response))
    \/ Resume("KeyResource.complete")

----------------------------------------------------------------------------
(* Actions: one request, then print *)

\* what the code after the request does: the lines printed, the calls of
\* response.json(), and whether that call raised (the body is not JSON)
Printed(lines, n) == [lines |-> lines, decodes |-> n, raised |-> FALSE]
JsonRaised == [lines |-> <<>>, decodes |-> 1, raised |-> TRUE]

\* print(response.json())
PrintJson(response) ==
    IF JsonOk(response)
    THEN Printed(<<PyStr(PyValue(response.body.text))>>, 1)
    ELSE JsonRaised

\* a slip: the body is decoded before the status is looked at
DecodeThenCheckStatus(response, message) ==
    IF response.status_code = 200
    THEN PrintJson(response)
    ELSE (IF JsonOk(response) THEN Printed(<<message>>, 1) ELSE JsonRaised)

\*     if response.status_code == 200: print(response.json())
\*     else: print(message)
PrintJsonOrFailure(response, message) ==
    IF response.status_code = 200
    THEN PrintJson(response)
    ELSE Printed(<<message>>, 0)

\* a slip: == for !=
PrintFailureOnSuccess(response, message) ==
    IF response.status_code = 200
    THEN Printed(<<message>>, 0)
    ELSE Printed(<<>>, 0)

\*     if response.status_code != 200: print(message)
PrintFailure(response, message) ==
    IF response.status_code # 200
    THEN Printed(<<message>>, 0)
    ELSE Printed(<<>>, 0)

\*     if response.status_code == 200:
\*         if response.text != '': print(response.json())
\*     else: print(message)
PrintJsonIfTextOrFailure(response, message) ==
    IF response.status_code = 200
    THEN (IF TextNonEmpty(response) THEN PrintJson(response) ELSE Printed(<<>>, 0))
    ELSE Printed(<<message>>, 0)

\* a slip: a failed request is sent a second time
ExecuteWithRetry(c, request, response, out) ==
    /\ outcome = "idle"
    /\ call' = c
    /\ sent' = IF response.status_code = 200 THEN <<request>> ELSE <<request, request>>
    /\ resp' = response
    /\ stdout' = out.lines
    /\ decodes' = out.decodes
    /\ outcome' = IF out.raised THEN "raised" ELSE "returned"
    /\ UNCHANGED <<names, retval, yielded, frame>>

\* one call of execute, start to finish: the request, the server's answer, the printing
Execute(c, request, response, out) ==
    /\ outcome = "idle"
    /\ call' = c
    /\ sent' = <<request>>
    /\ resp' = response
    /\ stdout' = out.lines
    /\ decodes' = out.decodes
    /\ outcome' = IF out.raised THEN "raised" ELSE "returned"
    /\ UNCHANGED <<names, retval, yielded, frame>>

LockAction_request(name) ==
    Request("POST", "/v1/primitives/locks/{name}",
            [name |-> name], {}, NoData)

LockAction_output(response) ==
    PrintJsonOrFailure(response, "Failed to acquire lock")

LockAction ==
    \E name \in ArgNames, response \in ActionResponses :
        Execute(Call("LockAction", name, NoArg, NoArg, <<>>),
                LockAction_request(name), response, LockAction_output(response))

UnlockAction_request(name) ==
    Request("DELETE", "/v1/primitives/locks/{name}",
            [name |-> name], {}, NoData)

UnlockAction_output(response) ==
    PrintJsonOrFailure(response, "Failed to release lock")

UnlockAction ==
    \E name \in ArgNames, response \in ActionResponses :
        Execute(Call("UnlockAction", name, NoArg, NoArg, <<>>),
                UnlockAction_request(name), response, UnlockAction_output(response))

RunAction_request(name) ==
    Request("POST", "/v1/primitives/elections/{name}",
            [name |-> name], {}, NoData)

RunAction_output(response) ==
    PrintJsonOrFailure(response, "Failed to enter election")

RunAction ==
    \E name \in ArgNames, response \in ActionResponses :
        Execute(Call("RunAction", name, NoArg, NoArg, <<>>),
                RunAction_request(name), response, RunAction_output(response))

LeaderAction_request(name) ==
    Request("GET", "/v1/primitives/elections/{name}",
            [name |-> name], {}, NoData)

LeaderAction_output(response) ==
    PrintJsonOrFailure(response, "Failed to find leader")

LeaderAction ==
    \E name \in ArgNames, response \in ActionResponses :
        Execute(Call("LeaderAction", name, NoArg, NoArg, <<>>),
                LeaderAction_request(name), response, LeaderAction_output(response))

ListenAction_request(name, id) ==
    Request("GET", "/v1/primitives/elections/{name}/{id}",
            [name |-> name, id |-> id], {}, NoData)

ListenAction_output(response) ==
    PrintJsonOrFailure(response, "Failed to listen for election")

ListenAction ==
    \E name \in ArgNames, id \in ArgIds, response \in ActionResponses :
        Execute(Call("ListenAction", name, id, NoArg, <<>>),
                ListenAction_request(name, id), response, ListenAction_output(response))

WithdrawAction_request(name, id) ==
    Request("DELETE", "/v1/primitives/elections/{name}/{id}",
            [name |-> name, id |-> id], {}, NoData)

WithdrawAction_output(response) ==
    PrintFailure(response, "Failed to withdraw from election")

WithdrawAction ==
    \E name \in ArgNames, id \in ArgIds, response \in ActionResponses :
        Execute(Call("WithdrawAction", name, id, NoArg, <<>>),
                WithdrawAction_request(name, id), response, WithdrawAction_output(response))

AnointAction_request(name, id) ==
    Request("POST", "/v1/primitives/elections/{name}/{id}/anoint",
            [name |-> name, id |-> id], {}, NoData)

AnointAction_output(response) ==
    PrintFailure(response, "Failed to anoint leader")

AnointAction ==
    \E name \in ArgNames, id \in ArgIds, response \in ActionResponses :
        Execute(Call("AnointAction", name, id, NoArg, <<>>),
                AnointAction_request(name, id), response, AnointAction_output(response))

PromoteAction_request(name, id) ==
    Request("POST", "/v1/primitives/elections/{name}/{id}/promote",
            [name |-> name, id |-> id], {}, NoData)

PromoteAction_output(response) ==
    PrintFailure(response, "Failed to promote candidate")

PromoteAction ==
    \E name \in ArgNames, id \in ArgIds, response \in ActionResponses :
        Execute(Call("PromoteAction", name, id, NoArg, <<>>),
                PromoteAction_request(name, id), response, PromoteAction_output(response))

EvictAction_request(name, id) ==
    Request("POST", "/v1/primitives/elections/{name}/{id}/evict",
            [name |-> name, id |-> id], {}, NoData)

EvictAction_output(response) ==
    PrintFailure(response, "Failed to evict candidate")

EvictAction ==
    \E name \in ArgNames, id \in ArgIds, response \in ActionResponses :
        Execute(Call("EvictAction", name, id, NoArg, <<>>),
                EvictAction_request(name, id), response, EvictAction_output(response))

GetAction_request(name, key) ==
    Request("GET", "/v1/primitives/maps/{name}/{key}",
            [name |-> name, key |-> key], {}, NoData)

GetAction_output(response) ==
    PrintJsonIfTextOrFailure(response, "Failed to get from map")

GetAction ==
    \E name \in ArgNames, key \in ArgIds, response \in ActionResponses :
        Execute(Call("GetAction", name, key, NoArg, <<>>),
                GetAction_request(name, key), response, GetAction_output(response))

PutAction_request(name, key, value) ==
    Request("PUT", "/v1/primitives/maps/{name}/{key}",
            [name |-> name, key |-> key, value |-> value], {<<"content-type", "text/plain">>}, NoData)

PutAction_output(response) ==
    PrintJsonIfTextOrFailure(response, "Failed to put to map")

PutAction ==
    \E name \in ArgNames, key \in ArgIds, value \in ArgValues, response \in ActionResponses :
        Execute(Call("PutAction", name, key, value, <<>>),
                PutAction_request(name, key, value), response, PutAction_output(response))

RemoveAction_request(name, key) ==
    Request("DELETE", "/v1/primitives/maps/{name}/{key}",
            [name |-> name, key |-> key], {}, NoData)

RemoveAction_output(response) ==
    PrintJsonIfTextOrFailure(response, "Failed to remove key")

RemoveAction ==
    \E name \in ArgNames, key \in ArgIds, response \in ActionResponses :
        Execute(Call("RemoveAction", name, key, NoArg, <<>>),
                RemoveAction_request(name, key), response, RemoveAction_output(response))

SizeAction_request(name) ==
    Request("GET", "/v1/primitives/maps/{name}/size",
            [name |-> name], {}, NoData)

SizeAction_output(response) ==
    PrintJsonOrFailure(response, "Failed to read map")

SizeAction ==
    \E name \in ArgNames, response \in ActionResponses :
        Execute(Call("SizeAction", name, NoArg, NoArg, <<>>),
                SizeAction_request(name), response, SizeAction_output(response))

ClearAction_request(name) ==
    Request("DELETE", "/v1/primitives/maps/{name}",
            [name |-> name], {}, NoData)

ClearAction_output(response) ==
    PrintFailure(response, "Failed to clear map")

ClearAction ==
    \E name \in ArgNames, response \in ActionResponses :
        Execute(Call("ClearAction", name, NoArg, NoArg, <<>>),
                ClearAction_request(name), response, ClearAction_output(response))

----------------------------------------------------------------------------
(* The caller: the invocation ends (or its generator is dropped) and the process
   with it; nothing of it is left for the next *)

Exit ==
    /\ outcome # "idle"
    /\ call' = NoCall
    /\ sent' = <<>>
    /\ stdout' = <<>>
    /\ decodes' = 0
    /\ outcome' = "idle"
    /\ retval' = None
    /\ yielded' = <<>>
    /\ frame' = NoFrame
    /\ resp' = NoResponse
    /\ UNCHANGED names

Next ==
    \/ ServerCreate
    \/ ServerDelete
    \/ LockResource_suggest
    \/ LockResource_complete
    \/ ElectionResource_suggest
    \/ ElectionResource_complete
    \/ CandidateResource_suggest
    \/ CandidateResource_complete
    \/ MapResource_suggest
    \/ MapResource_complete
    \/ KeyResource_suggest
    \/ KeyResource_complete
    \/ LockAction
    \/ UnlockAction
    \/ RunAction
    \/ LeaderAction
    \/ ListenAction
    \/ WithdrawAction
    \/ AnointAction
    \/ PromoteAction
    \/ EvictAction
    \/ GetAction
    \/ PutAction
    \/ RemoveAction
    \/ SizeAction
    \/ ClearAction
    \/ Exit

Spec == Init /\ [][Next]_vars

----------------------------------------------------------------------------
(* Properties.  What the documentation says is stated here on its own terms:
   case-insensitive comparison letter by letter, the filter as a selection,
   the documented table of verbs, paths and failure lines. *)

SuggestOps ==
    { "LockResource.suggest", "ElectionResource.suggest", "CandidateResource.suggest",
      "MapResource.suggest", "KeyResource.suggest" }

CompleteOps ==
    { "LockResource.complete", "ElectionResource.complete", "CandidateResource.complete",
      "MapResource.complete", "KeyResource.complete" }

ActionOps ==
    { "LockAction", "UnlockAction", "RunAction", "LeaderAction", "ListenAction",
      "WithdrawAction", "AnointAction", "PromoteAction", "EvictAction",
      "GetAction", "PutAction", "RemoveAction", "SizeAction", "ClearAction" }

\* an invocation has run to its end
Finished == outcome \in {"returned", "raised"}

\* the fetch got a name list with status 200
GotList == resp.status_code = 200 /\ resp.body.form = "json"

CasePairs == { <<"A", "a">>, <<"B", "b">>, <<"L", "l">> }

SameLetter(c, d) == c = d \/ <<c, d>> \in CasePairs \/ <<d, c>> \in CasePairs

\* p is a prefix of x, case ignored
IsPrefixIgnoringCase(p, x) ==
    /\ Len(p) <= Len(x)
    /\ \A k \in 1..Len(p) : SameLetter(p[k], x[k])

\* the elements of xs that p is a case-insensitive prefix of, in the order of xs
Keep(xs, p) == SelectSeq(xs, LAMBDA x : IsPrefixIgnoringCase(p, x))

\* x without its first n characters
Drop(x, n) == [k \in 1..(Len(x) - n) |-> x[k + n]]

\* the collection endpoint of each resource
CollectionPath(op) ==
    CASE op \in {"LockResource.suggest", "LockResource.complete"} -> "/v1/primitives/locks"
      [] op \in {"ElectionResource.suggest", "ElectionResource.complete"} -> "/v1/primitives/elections"
      [] op \in {"CandidateResource.suggest", "CandidateResource.complete"} -> "/v1/primitives/elections/{name}"
      [] op \in {"MapResource.suggest", "MapResource.complete"} -> "/v1/primitives/maps"
      [] op \in {"KeyResource.suggest", "KeyResource.complete"} -> "/v1/primitives/maps/{name}/keys"

\* the documented verb and path of each operation
Documented(op) ==
    CASE op = "RunAction" -> <<"POST", "/v1/primitives/elections/{name}">>
      [] op = "LeaderAction" -> <<"GET", "/v1/primitives/elections/{name}">>
      [] op = "ListenAction" -> <<"GET", "/v1/primitives/elections/{name}/{id}">>
      [] op = "WithdrawAction" -> <<"DELETE", "/v1/primitives/elections/{name}/{id}">>
      [] op = "AnointAction" -> <<"POST", "/v1/primitives/elections/{name}/{id}/anoint">>
      [] op = "PromoteAction" -> <<"POST", "/v1/primitives/elections/{name}/{id}/promote">>
      [] op = "EvictAction" -> <<"POST", "/v1/primitives/elections/{name}/{id}/evict">>
      [] op = "LockAction" -> <<"POST", "/v1/primitives/locks/{name}">>
      [] op = "UnlockAction" -> <<"DELETE", "/v1/primitives/locks/{name}">>
      [] op = "GetAction" -> <<"GET", "/v1/primitives/maps/{name}/{key}">>
      [] op = "PutAction" -> <<"PUT", "/v1/primitives/maps/{name}/{key}">>
      [] op = "RemoveAction" -> <<"DELETE", "/v1/primitives/maps/{name}/{key}">>
      [] op = "SizeAction" -> <<"GET", "/v1/primitives/maps/{name}/size">>
      [] op = "ClearAction" -> <<"DELETE", "/v1/primitives/maps/{name}">>

\* the documented failure line of the operations of C3
FailureLine(op) ==
    CASE op = "RunAction" -> "Failed to enter election"
      [] op = "LeaderAction" -> "Failed to find leader"
      [] op = "ListenAction" -> "Failed to listen for election"
      [] op = "WithdrawAction" -> "Failed to withdraw from election"
      [] op = "LockAction" -> "Failed to acquire lock"
      [] op = "UnlockAction" -> "Failed to release lock"
      [] op = "GetAction" -> "Failed to get from map"
      [] op = "PutAction" -> "Failed to put to map"
      [] op = "RemoveAction" -> "Failed to remove key"
      [] op = "SizeAction" -> "Failed to read map"
      [] op = "ClearAction" -> "Failed to clear map"

\* the line print writes for each JSON text the server sends
DecodedLine(text) ==
    CASE text = "true" -> "True"
      [] text = "17" -> "17"
      [] text = "\"ok\"" -> "ok"

(* C1: once complete has run to its end over a name list L returned with status
   200, it has yielded exactly the elements of L that the prefix matches, case
   ignored, in the order of L; while it is suspended it has yielded exactly
   those among the elements it has gone through. *)
C1_CompleteFilters ==
    (call.op \in CompleteOps /\ GotList) =>
        /\ outcome = "returned" => yielded = Keep(resp.body.list, call.prefix)
        /\ outcome = "suspended" =>
            /\ frame.i \in 2..(Len(resp.body.list) + 1)
            /\ yielded = Keep(SubSeq(resp.body.list, 1, frame.i - 1), call.prefix)
            /\ yielded # <<>>

\* complete("a") over ["b-lock", "A-Lock"] has yielded ["A-Lock"] and ended
C1_Witness ==
    /\ call.op \in CompleteOps
    /\ outcome = "returned"
    /\ GotList
    /\ resp.body.list = << <<"b", "-", "l", "o", "c", "k">>, <<"A", "-", "L", "o", "c", "k">> >>
    /\ call.prefix = <<"a">>
    /\ yielded = << <<"A", "-", "L", "o", "c", "k">> >>

(* C2: suggest over a name list L returned with status 200 returns the first
   element of L that the prefix matches, case ignored, without its first
   len(prefix) characters, and returns None exactly when no element matches. *)
C2_SuggestFirstRemainder ==
    (call.op \in SuggestOps /\ GotList /\ Finished) =>
        LET xs == resp.body.list
            hits == { k \in 1..Len(xs) : IsPrefixIgnoringCase(call.prefix, xs[k]) }
        IN  /\ outcome = "returned"
            /\ (hits = {}) <=> retval.none
            /\ hits # {} =>
                 LET first == CHOOSE k \in hits : \A h \in hits : k <= h
                 IN  retval = [none |-> FALSE, str |-> Drop(xs[first], Len(call.prefix))]

\* the documented example: ["a-lock", "b-lock"], prefix "a", gives "-lock"
C2_Witness ==
    /\ call.op \in SuggestOps
    /\ outcome = "returned"
    /\ GotList
    /\ resp.body.list = << <<"a", "-", "l", "o", "c", "k">>, <<"b", "-", "l", "o", "c", "k">> >>
    /\ call.prefix = <<"a">>
    /\ retval = [none |-> FALSE, str |-> <<"-", "l", "o", "c", "k">>]

(* C3: election run/leader/listen/withdraw, lock lock/unlock and map
   get/put/remove/size/clear, answered with a status other than 200, print
   exactly one line, the failure line documented for the operation, whatever
   the body, and never call response.json(). *)
C3_FailureLineNoDecode ==
    (call.op \in ActionOps \ {"AnointAction", "PromoteAction", "EvictAction"}
        /\ Finished /\ resp.status_code # 200) =>
        /\ stdout = <<FailureLine(call.op)>>
        /\ decodes = 0
        /\ outcome = "returned"

\* map size answered 500 with a JSON body: one failure line, no decode
C3_Witness ==
    /\ call.op = "SizeAction"
    /\ outcome = "returned"
    /\ resp.status_code = 500
    /\ resp.body.form = "json"
    /\ stdout = <<"Failed to read map">>
    /\ decodes = 0

(* C4 as stated: anoint, promote and evict print nothing on status 200 and
   print "Failed to anoint", "Failed to promote", "Failed to evict" on any
   other status. *)
C4_FailedToVerb ==
    (call.op \in {"AnointAction", "PromoteAction", "EvictAction"} /\ Finished) =>
        /\ resp.status_code = 200 => stdout = <<>>
        /\ resp.status_code # 200 =>
             stdout = << CASE call.op = "AnointAction" -> "Failed to anoint"
                           [] call.op = "PromoteAction" -> "Failed to promote"
                           [] call.op = "EvictAction" -> "Failed to evict" >>

(* C4 amended: anoint, promote and evict print nothing on status 200 and on any
   other status print one line: "Failed to anoint leader", "Failed to promote
   candidate", "Failed to evict candidate". *)
C4_FailedToVerbObject ==
    (call.op \in {"AnointAction", "PromoteAction", "EvictAction"} /\ Finished) =>
        /\ outcome = "returned"
        /\ decodes = 0
        /\ resp.status_code = 200 => stdout = <<>>
        /\ resp.status_code # 200 =>
             stdout = << CASE call.op = "AnointAction" -> "Failed to anoint leader"
                           [] call.op = "PromoteAction" -> "Failed to promote candidate"
                           [] call.op = "EvictAction" -> "Failed to evict candidate" >>

\* anoint answered 404
C4_Witness ==
    /\ call.op = "AnointAction"
    /\ outcome = "returned"
    /\ resp.status_code = 404
    /\ stdout = <<"Failed to anoint leader">>

(* C5: map put sends the value as the text/plain body of its PUT request to
   /v1/primitives/maps/{name}/{key}. *)
C5_PutSendsValue ==
    (call.op = "PutAction" /\ Finished) =>
        /\ Len(sent) = 1
        /\ sent[1].verb = "PUT"
        /\ sent[1].template = "/v1/primitives/maps/{name}/{key}"
        /\ <<"content-type", "text/plain">> \in sent[1].headers
        /\ sent[1].data = call.value

(* C6: map get, put and remove answered 200 print nothing and decode nothing
   when the body is empty, and print the decoded JSON body, and no failure
   line, when the body is not empty. *)
C6_EmptyBodySilent ==
    (call.op \in {"GetAction", "PutAction", "RemoveAction"} /\ Finished
        /\ resp.status_code = 200) =>
        /\ resp.body.form = "empty" => (stdout = <<>> /\ decodes = 0)
        /\ resp.body.form # "empty" =>
            /\ Len(stdout) = 1
            /\ stdout[1] # FailureLine(call.op)
            /\ resp.body.form = "json" => stdout[1] = DecodedLine(resp.body.text)

(* C7: a resource whose fetch is answered with a status other than 200 behaves
   as over the empty list: complete yields nothing, suggest returns None,
   nothing is printed, nothing is raised, and the body is not decoded. *)
C7_FetchFailureIsEmptyList ==
    (call.op \in SuggestOps \cup CompleteOps /\ sent # <<>> /\ resp.status_code # 200) =>
        /\ outcome = "returned"
        /\ yielded = <<>>
        /\ retval.none
        /\ stdout = <<>>
        /\ decodes = 0

\* the keys of a map asked for with prefix "", answered 404 with a list of names
C7_Witness ==
    /\ call.op = "KeyResource.suggest"
    /\ outcome = "returned"
    /\ resp.status_code = 404
    /\ resp.body.form = "json"
    /\ resp.body.list # <<>>
    /\ call.prefix = <<>>
    /\ retval.none

(* C8: no exception propagates from an action once the server has answered,
   whatever the status and the body. *)
C8_NoException ==
    call.op \in ActionOps => outcome # "raised"

(* C9: an execution of an action issues exactly one request, with the verb and
   the path documented for the operation, and then ends, whatever the
   response. *)
C9_OneDocumentedRequest ==
    (call.op \in ActionOps) =>
        /\ Finished
        /\ Len(sent) = 1
        /\ <<sent[1].verb, sent[1].template>> = Documented(call.op)

\* withdraw answered 500: one DELETE, not sent again
C9_Witness ==
    /\ call.op = "WithdrawAction"
    /\ Finished
    /\ resp.status_code = 500
    /\ sent = << [verb |-> "DELETE", template |-> "/v1/primitives/elections/{name}/{id}",
                  kwargs |-> [name |-> "foo", id |-> "k1"], headers |-> {}, data |-> NoData] >>

(* C10: nothing is cached.  A suggest or complete that has run at all has
   issued exactly one request of its own, a GET to its collection endpoint, and
   what it has produced is computed from the list that GET returned, whatever
   the server's list has become since; before it, nothing of an earlier
   request is left. *)
C10_FreshFetch ==
    /\ outcome = "idle" =>
         (call.op = "none" /\ sent = <<>> /\ resp.body.form = "none" /\ frame.xs = <<>>)
    /\ (call.op \in SuggestOps \cup CompleteOps) =>
        /\ outcome = "created" => (sent = <<>> /\ resp.body.form = "none" /\ frame.xs = <<>>)
        /\ outcome # "created" =>
            /\ Len(sent) = 1
            /\ sent[1].verb = "GET"
            /\ sent[1].template = CollectionPath(call.op)
            /\ sent[1].data = NoData
        /\ (outcome = "suspended" /\ GotList) =>
            /\ frame.xs = resp.body.list
            /\ yielded = Keep(SubSeq(resp.body.list, 1, frame.i - 1), call.prefix)
        /\ (outcome = "returned" /\ GotList /\ call.op \in CompleteOps) =>
            yielded = Keep(resp.body.list, call.prefix)
        /\ (outcome = "returned" /\ GotList /\ call.op \in SuggestOps) =>
            (retval.none <=> Keep(resp.body.list, call.prefix) = <<>>)

\* a complete that ended after the server's list had changed under it
C10_Witness ==
    /\ call.op \in CompleteOps
    /\ outcome = "returned"
    /\ GotList
    /\ Len(resp.body.list) = 2
    /\ Len(yielded) = 2
    /\ names = <<>>

====
